---- MODULE Spec2Model ----
(***************************************************************************)
(* Model of backend/scripts/data_collector.py: the pipeline                *)
(*   fetch_exchange_rate -> clean_exchange_rate -> invert_exchange_rate    *)
(*   -> store_exchange_rate                                                *)
(* run by main().  Every process executes main() once (asyncio.run(main()) *)
(* at the entry point); several processes may run against the same         *)
(* MongoDB database, in any interleaving of their suspension points.       *)
(***************************************************************************)
EXTENDS Integers, Sequences, FiniteSets, TLC

\* Number of pipeline processes (invocations of main()) in the model.
NumRuns == 2

Runs == 1..NumRuns

----------------------------------------------------------------------------
\* Values

\* Python's None (the value of a function that falls off its end).
None == [t |-> "None"]

\* A str value, as found in the JSON body and produced by str(Decimal).
Str(s) == [t |-> "str", s |-> s]

\* A decimal.Decimal value, kept exactly as the rational n/d (d > 0).
Dec(n, d) == [t |-> "dec", n |-> n, d |-> d]

\* Decimal(str): the numeric strings the model uses and their values.
DecimalOfStr ==
    [s \in {"0", "0.0", "0.25", "0.5", "2", "4", "-2", "-0.5"} |->
        CASE s = "0"    -> Dec(0, 1)
          [] s = "0.0"  -> Dec(0, 1)
          [] s = "0.25" -> Dec(1, 4)
          [] s = "0.5"  -> Dec(1, 2)
          [] s = "2"    -> Dec(2, 1)
          [] s = "4"    -> Dec(4, 1)
          [] s = "-2"   -> Dec(0 - 2, 1)
          [] s = "-0.5" -> Dec(0 - 1, 2)]

\* str(Decimal) for the quotients 1/x the model can produce.
StrOfDecimal(x) ==
    CASE x = Dec(1, 4)     -> "0.25"
      [] x = Dec(1, 2)     -> "0.5"
      [] x = Dec(2, 1)     -> "2"
      [] x = Dec(4, 1)     -> "4"
      [] x = Dec(0 - 2, 1) -> "-2"
      [] x = Dec(0 - 1, 2) -> "-0.5"
      [] x = Dec(0, 1)     -> "0"

\* Whether pydantic accepts v for a field annotated DecimalAnnotation:
\* a Decimal, or a string that parses as a finite decimal.
IsDecimal(v) ==
    \/ v.t = "dec"
    \/ v.t = "str" /\ v.s \in DOMAIN DecimalOfStr

\* The Decimal pydantic / Decimal(value) makes of an accepted value.
ToDecimal(v) == IF v.t = "dec" THEN v ELSE DecimalOfStr[v.s]

\* 1 / x in decimal arithmetic, x # 0 (exact for the modelled values).
Reciprocal(x) == IF x.n > 0 THEN Dec(x.d, x.n) ELSE Dec(0 - x.d, 0 - x.n)

----------------------------------------------------------------------------
\* Pydantic models and Beanie documents

FiatFields == {"AED", "EUR", "USD"}

CryptoFields == {"BTC", "ETH", "SOL"}

\* What the constructor of a pydantic model raises on a missing or
\* non-decimal field.
ValidationError == [t |-> "ValidationError"]

\* Variant of BaseModel configured with extra = 'allow': undeclared keys
\* of data are kept on the model.
BaseModelAllowExtra(fields, data) ==
    IF \A f \in fields : f \in DOMAIN data /\ IsDecimal(data[f])
    THEN [k \in DOMAIN data |->
            IF k \in fields THEN ToDecimal(data[k]) ELSE data[k]]
    ELSE ValidationError

\* Model(**data) for a model with the given fields: extra keys are ignored
\* (pydantic's default), every declared field is required and coerced to
\* Decimal.  The result is the model's field mapping, or ValidationError.
BaseModel(fields, data) ==
    IF \A f \in fields : f \in DOMAIN data /\ IsDecimal(data[f])
    THEN [f \in fields |-> ToDecimal(data[f])]
    ELSE ValidationError

FiatRate(data) == BaseModel(FiatFields, data)

CryptoRate(data) == BaseModel(CryptoFields, data)

\* {**a, **b}
Merge(a, b) ==
    [k \in DOMAIN a \cup DOMAIN b |-> IF k \in DOMAIN b THEN b[k] ELSE a[k]]

\* The value clean_exchange_rate returns for a mapping, or the
\* ValidationError it raises.
clean_exchange_rate(rate) ==
    IF FiatRate(rate) = ValidationError \/ CryptoRate(rate) = ValidationError
    THEN ValidationError
    ELSE Merge(FiatRate(rate), CryptoRate(rate))

DivisionByZero == [t |-> "DivisionByZero"]

\* The value invert_exchange_rate returns, or the DivisionByZero that
\* 1/Decimal(0) raises.
invert_exchange_rate(filtered_rate) ==
    IF \E k \in DOMAIN filtered_rate : ToDecimal(filtered_rate[k]).n = 0
    THEN DivisionByZero
    ELSE [k \in DOMAIN filtered_rate |->
            Str(StrOfDecimal(Reciprocal(ToDecimal(filtered_rate[k]))))]

\* Variant of Fiat whose rates are the whole mapping handed to the store.
FiatAllRates(owner, date, inverted_rate) ==
    [owner |-> owner, date |-> date,
     rates |-> [k \in DOMAIN inverted_rate |-> ToDecimal(inverted_rate[k])]]

\* Fiat(rates=FiatRate(**inverted_rate)): the document, dated at construction.
Fiat(owner, date, inverted_rate) ==
    [owner |-> owner, date |-> date, rates |-> FiatRate(inverted_rate)]

\* Crypto(rates=CryptoRate(**inverted_rate))
Crypto(owner, date, inverted_rate) ==
    [owner |-> owner, date |-> date, rates |-> CryptoRate(inverted_rate)]

----------------------------------------------------------------------------
\* Inputs: what the outside world can hand to a run

\* response.json()['data']['rates'] of a well-formed 2xx body: codes to
\* decimal strings.
Quotes(m) == [k \in DOMAIN m |-> Str(m[k])]

AllQuoted ==
    [AED |-> "4", EUR |-> "2", USD |-> "2",
     BTC |-> "0.5", ETH |-> "0.25", SOL |-> "0.5", GBP |-> "2"]

Without(m, k) == [j \in DOMAIN m \ {k} |-> m[j]]

RateBodies ==
    { Quotes(AllQuoted),
      Quotes([AED |-> "0.25", EUR |-> "-2", USD |-> "4",
              BTC |-> "2", ETH |-> "0.5", SOL |-> "4"]),
      Quotes(Without(AllQuoted, "BTC")),
      Quotes(Without(AllQuoted, "AED")),
      Quotes([AllQuoted EXCEPT !.USD = "abc"]),
      Quotes([AllQuoted EXCEPT !.ETH = "0"]) }

\* Outcomes of the GET of line 31 and of reading its body (lines 33-35).
Responses == {"ok", "status_error", "transport_error", "malformed"}

\* os.getenv('MONGO') after load_dotenv(): unset, empty, or a connection string.
MongoValues == {None, Str(""), Str("mongodb://db")}

\* The environments a process can run in: os.path.isfile('.env') and MONGO.
Environments == [env_file : BOOLEAN, MONGO : MongoValues]

\* Outcomes of an awaited database operation (init_beanie, insert).
DbOutcomes == {"ok", "error"}

----------------------------------------------------------------------------
\* State

VARIABLES
    pc,             \* where each run of main() stands
    rate,           \* main's local: result of fetch_exchange_rate
    filtered_rate,  \* main's local: result of clean_exchange_rate
    inverted_rate,  \* main's local: result of invert_exchange_rate
    environ,        \* what store_exchange_rate read of the process's
                    \* environment (.env present, MONGO), None before
    client,         \* store_exchange_rate's AsyncIOMotorClient: "none"/"open"
    log,            \* each run's records in data_collector.log
    exc,            \* the exception main() ended with, or "none"
    calls,          \* how often each run has called each stage function
    fiat,           \* the 'fiat' collection of database birr
    crypto,         \* the 'crypto' collection of database birr
    indexes,        \* collections whose date index init_beanie has ensured
    now             \* datetime.now, as a logical clock

vars == <<pc, rate, filtered_rate, inverted_rate, environ, client, log, exc,
          calls, fiat, crypto, indexes, now>>

Stages == {"fetch", "clean", "invert", "store"}

Init ==
    /\ pc = [p \in Runs |-> "fetch"]
    /\ rate = [p \in Runs |-> None]
    /\ filtered_rate = [p \in Runs |-> None]
    /\ inverted_rate = [p \in Runs |-> None]
    /\ environ = [p \in Runs |-> None]
    /\ client = [p \in Runs |-> "none"]
    /\ log = [p \in Runs |-> <<>>]
    /\ exc = [p \in Runs |-> "none"]
    /\ calls = [p \in Runs |-> [s \in Stages |-> 0]]
    /\ fiat = <<>>
    /\ crypto = <<>>
    /\ indexes = {}
    /\ now = 0

\* main() calls a stage function.
Call(p, stage) == calls' = [calls EXCEPT ![p][stage] = @ + 1]

\* logging.error / logging.critical
Logged(p, msg) == log' = [log EXCEPT ![p] = Append(@, msg)]

\* An exception leaves main() (nothing in main catches it).
Raise(p, e) ==
    /\ pc' = [pc EXCEPT ![p] = "raised"]
    /\ exc' = [exc EXCEPT ![p] = e]

----------------------------------------------------------------------------
\* main(), line 156: rate = await fetch_exchange_rate()
Fetch(p) ==
    /\ pc[p] = "fetch"
    /\ Call(p, "fetch")
    /\ \E response \in Responses :
         \/ /\ response = "ok"
            /\ \E body \in RateBodies : rate' = [rate EXCEPT ![p] = body]
            /\ pc' = [pc EXCEPT ![p] = "clean"]
            /\ UNCHANGED <<log, exc>>
         \/ /\ response = "status_error"
            /\ Logged(p, "Status Error")
            /\ pc' = [pc EXCEPT ![p] = "clean"]
            /\ UNCHANGED <<rate, exc>>
         \/ /\ response = "transport_error"
            /\ Logged(p, "HTTP Exception")
            /\ pc' = [pc EXCEPT ![p] = "clean"]
            /\ UNCHANGED <<rate, exc>>
         \/ /\ response = "malformed"
            /\ Raise(p, "JSONDecodeError")
            /\ UNCHANGED <<rate, log>>
    /\ UNCHANGED <<filtered_rate, inverted_rate, environ, client,
                   fiat, crypto, indexes, now>>

\* main(), line 158: filtered_rate = await clean_exchange_rate(rate)
Clean(p) ==
    /\ pc[p] = "clean"
    /\ Call(p, "clean")
    /\ IF rate[p] = None
       THEN /\ Raise(p, "TypeError")
            /\ UNCHANGED filtered_rate
       ELSE IF clean_exchange_rate(rate[p]) = ValidationError
       THEN /\ Raise(p, "ValidationError")
            /\ UNCHANGED filtered_rate
       ELSE /\ filtered_rate' =
                  [filtered_rate EXCEPT ![p] = clean_exchange_rate(rate[p])]
            /\ pc' = [pc EXCEPT ![p] = "invert"]
            /\ UNCHANGED exc
    /\ UNCHANGED <<rate, inverted_rate, environ, client, log,
                   fiat, crypto, indexes, now>>

\* Variant of Invert that lets a zero rate through (as "0") instead of
\* raising DivisionByZero.
InvertPassZero(p) ==
    /\ pc[p] = "invert"
    /\ Call(p, "invert")
    /\ inverted_rate' =
          [inverted_rate EXCEPT
              ![p] = [k \in DOMAIN filtered_rate[p] |->
                        IF ToDecimal(filtered_rate[p][k]).n = 0
                        THEN Str("0")
                        ELSE Str(StrOfDecimal(Reciprocal(
                                    ToDecimal(filtered_rate[p][k]))))]]
    /\ pc' = [pc EXCEPT ![p] = "store"]
    /\ UNCHANGED <<rate, filtered_rate, environ, client, log, exc,
                   fiat, crypto, indexes, now>>

\* main(), line 160: inverted_rate = await invert_exchange_rate(filtered_rate)
Invert(p) ==
    /\ pc[p] = "invert"
    /\ Call(p, "invert")
    /\ IF invert_exchange_rate(filtered_rate[p]) = DivisionByZero
       THEN /\ Raise(p, "DivisionByZero")
            /\ UNCHANGED inverted_rate
       ELSE /\ inverted_rate' =
                  [inverted_rate EXCEPT
                      ![p] = invert_exchange_rate(filtered_rate[p])]
            /\ pc' = [pc EXCEPT ![p] = "store"]
            /\ UNCHANGED exc
    /\ UNCHANGED <<rate, filtered_rate, environ, client, log,
                   fiat, crypto, indexes, now>>

\* Variant of Falsy that tests only for an unset variable.
FalsyNoneOnly(v) == v = None

\* `not MONGO`
Falsy(v) == v = None \/ v = Str("")

\* main(), line 162, store_exchange_rate up to its first await
\* (lines 116-130): the configuration checks and the client.
Store(p) ==
    /\ pc[p] = "store"
    /\ Call(p, "store")
    /\ \E env \in Environments :
         /\ environ' = [environ EXCEPT ![p] = env]
         /\ IF ~env.env_file
            THEN /\ Logged(p, "File Error")
                 /\ pc' = [pc EXCEPT ![p] = "done"]
                 /\ UNCHANGED client
            ELSE IF Falsy(env.MONGO)
            THEN /\ Logged(p, "Environment variable Error")
                 /\ pc' = [pc EXCEPT ![p] = "done"]
                 /\ UNCHANGED client
            ELSE /\ client' = [client EXCEPT ![p] = "open"]
                 /\ pc' = [pc EXCEPT ![p] = "init_beanie"]
                 /\ UNCHANGED log
    /\ UNCHANGED <<rate, filtered_rate, inverted_rate, exc,
                   fiat, crypto, indexes, now>>

\* Variant of Caught that logs and re-raises.
CaughtReraise(p) ==
    /\ Logged(p, "Database connection Error")
    /\ pc' = [pc EXCEPT ![p] = "raised"]

\* The except clause of lines 141-143, then the return to main, which
\* returns too.
Caught(p) ==
    /\ Logged(p, "Database connection Error")
    /\ pc' = [pc EXCEPT ![p] = "done"]

\* store_exchange_rate, line 132: await init_beanie(...)
InitBeanie(p) ==
    /\ pc[p] = "init_beanie"
    /\ \E outcome \in DbOutcomes :
         IF outcome = "ok"
         THEN /\ indexes' = indexes \cup {"fiat", "crypto"}
              /\ pc' = [pc EXCEPT ![p] = "insert_fiat"]
              /\ UNCHANGED log
         ELSE /\ Caught(p)
              /\ UNCHANGED indexes
    /\ UNCHANGED <<rate, filtered_rate, inverted_rate, environ, client, exc,
                   calls, fiat, crypto, now>>

\* Variant of InsertFiat that skips the insert when the collection already
\* holds a snapshot with the same rates.
InsertFiatDedup(p) ==
    /\ pc[p] = "insert_fiat"
    /\ now' = now + 1
    /\ fiat' = IF \E i \in DOMAIN fiat :
                     fiat[i].rates = FiatRate(inverted_rate[p])
               THEN fiat
               ELSE Append(fiat, Fiat(p, now, inverted_rate[p]))
    /\ pc' = [pc EXCEPT ![p] = "insert_crypto"]
    /\ UNCHANGED <<rate, filtered_rate, inverted_rate, environ, client, exc,
                   calls, crypto, indexes, log>>

\* Variant of InsertFiat that replaces the stored snapshot instead of
\* adding one.
InsertFiatReplace(p) ==
    /\ pc[p] = "insert_fiat"
    /\ now' = now + 1
    /\ fiat' = <<Fiat(p, now, inverted_rate[p])>>
    /\ pc' = [pc EXCEPT ![p] = "insert_crypto"]
    /\ UNCHANGED <<rate, filtered_rate, inverted_rate, environ, client, exc,
                   calls, crypto, indexes, log>>

\* store_exchange_rate, lines 134-136: the fiat document and its insert.
InsertFiat(p) ==
    /\ pc[p] = "insert_fiat"
    /\ now' = now + 1
    /\ \E outcome \in DbOutcomes :
         IF outcome = "ok" /\ FiatRate(inverted_rate[p]) # ValidationError
         THEN /\ fiat' = Append(fiat, Fiat(p, now, inverted_rate[p]))
              /\ pc' = [pc EXCEPT ![p] = "insert_crypto"]
              /\ UNCHANGED log
         ELSE /\ Caught(p)
              /\ UNCHANGED fiat
    /\ UNCHANGED <<rate, filtered_rate, inverted_rate, environ, client, exc,
                   calls, crypto, indexes>>

\* Variant of InsertCrypto that undoes the run's fiat insert when the
\* crypto insert fails.
InsertCryptoRollback(p) ==
    /\ pc[p] = "insert_crypto"
    /\ now' = now + 1
    /\ \E outcome \in DbOutcomes :
         IF outcome = "ok"
         THEN /\ crypto' = Append(crypto, Crypto(p, now, inverted_rate[p]))
              /\ pc' = [pc EXCEPT ![p] = "done"]
              /\ UNCHANGED <<log, fiat>>
         ELSE /\ Caught(p)
              /\ fiat' = SelectSeq(fiat, LAMBDA d : d.owner # p)
              /\ UNCHANGED crypto
    /\ UNCHANGED <<rate, filtered_rate, inverted_rate, environ, client, exc,
                   calls, indexes>>

\* store_exchange_rate, lines 138-140: the crypto document and its insert,
\* after which store_exchange_rate and main return.
InsertCrypto(p) ==
    /\ pc[p] = "insert_crypto"
    /\ now' = now + 1
    /\ \E outcome \in DbOutcomes :
         IF outcome = "ok" /\ CryptoRate(inverted_rate[p]) # ValidationError
         THEN /\ crypto' = Append(crypto, Crypto(p, now, inverted_rate[p]))
              /\ pc' = [pc EXCEPT ![p] = "done"]
              /\ UNCHANGED log
         ELSE /\ Caught(p)
              /\ UNCHANGED crypto
    /\ UNCHANGED <<rate, filtered_rate, inverted_rate, environ, client, exc,
                   calls, fiat, indexes>>

Next ==
    \E p \in Runs :
        \/ Fetch(p)
        \/ Clean(p)
        \/ Invert(p)
        \/ Store(p)
        \/ InitBeanie(p)
        \/ InsertFiat(p)
        \/ InsertCrypto(p)

Spec == Init /\ [][Next]_vars

----------------------------------------------------------------------------
\* Vocabulary of the properties

\* main() has returned or has ended with an exception.
Ended(p) == pc[p] \in {"done", "raised"}

\* The snapshots of a collection that run p inserted.
Owned(coll, p) == {i \in DOMAIN coll : coll[i].owner = p}

HasFiat(p) == Owned(fiat, p) # {}

HasCrypto(p) == Owned(crypto, p) # {}

\* fetch_exchange_rate was called and gave no rate mapping.
FetchFailed(p) == calls[p]["fetch"] > 0 /\ rate[p] = None

\* Every required code is in the raw mapping with a decimal value.
Required == {"AED", "EUR", "USD", "BTC", "ETH", "SOL"}

WellFormed(raw) == \A c \in Required : c \in DOMAIN raw /\ IsDecimal(raw[c])

\* clean_exchange_rate was called on a raw mapping it must reject.
ValidateFailed(p) ==
    calls[p]["clean"] > 0 /\ rate[p] # None /\ ~WellFormed(rate[p])

\* invert_exchange_rate was called on a mapping with a zero rate.
InvertFailed(p) ==
    /\ calls[p]["invert"] > 0
    /\ \E k \in DOMAIN filtered_rate[p] : ToDecimal(filtered_rate[p][k]).n = 0

\* s is an initial segment of t.
IsPrefix(s, t) == Len(s) <= Len(t) /\ \A i \in DOMAIN s : t[i] = s[i]

StoreDiagnostics ==
    {"File Error", "Environment variable Error", "Database connection Error"}

\* The run ended without any diagnostic and without an exception.
Succeeded(p) == pc[p] = "done" /\ log[p] = <<>>

----------------------------------------------------------------------------
\* C1: a run whose Fetch, Validate or Invert stage failed has inserted no
\* record into the fiat collection and none into the crypto collection.
C1_NoRecordAfterEarlyFailure ==
    \A p \in Runs :
        (FetchFailed(p) \/ ValidateFailed(p) \/ InvertFailed(p))
            => ~HasFiat(p) /\ ~HasCrypto(p)

\* A run ended on a zero rate while another run did insert its snapshots.
C1_Witness ==
    \E p, q \in Runs :
        /\ InvertFailed(p) /\ pc[p] = "raised"
        /\ HasFiat(q) /\ HasCrypto(q)

\* C2: once a stage of a run has failed, no later stage of that run is
\* called: after a failed Fetch neither clean, invert nor store; after a
\* failed Validate neither invert nor store; after a failed Invert no store.
C2_NoStageAfterFailure ==
    \A p \in Runs :
        /\ FetchFailed(p) =>
              calls[p]["clean"] = 0 /\ calls[p]["invert"] = 0
                                    /\ calls[p]["store"] = 0
        /\ ValidateFailed(p) =>
              calls[p]["invert"] = 0 /\ calls[p]["store"] = 0
        /\ InvertFailed(p) => calls[p]["store"] = 0

\* C3 as stated: whatever stage fails, main() completes normally and the
\* failure is in the log.
C3_NeverRaises ==
    \A p \in Runs :
        Ended(p) /\ ~Succeeded(p) =>
            pc[p] = "done" /\ exc[p] = "none" /\ log[p] # <<>>

\* C3 amended: only a failure of the Store stage is kept from the caller
\* (main() returns normally, the failure is the run's one diagnostic); a run
\* that ends before the Store stage ends with an exception leaving main().
C3_OnlyStoreFailureContained ==
    \A p \in Runs :
        /\ calls[p]["store"] > 0 =>
              /\ pc[p] # "raised" /\ exc[p] = "none"
              /\ pc[p] = "done" /\ ~(HasFiat(p) /\ HasCrypto(p)) =>
                    Len(log[p]) = 1 /\ log[p][1] \in StoreDiagnostics
        /\ Ended(p) /\ calls[p]["store"] = 0 =>
              /\ pc[p] = "raised"
              /\ exc[p] \in {"JSONDecodeError", "TypeError",
                             "ValidationError", "DivisionByZero"}

\* A store failure was contained in one run, and a validation failure left
\* main() in another.
C3_Witness ==
    \E p, q \in Runs :
        /\ pc[p] = "done" /\ log[p] = <<"Database connection Error">>
        /\ pc[q] = "raised" /\ exc[q] = "ValidationError"

\* C4: clean_exchange_rate gives, for a raw mapping with all six required
\* codes decimal, exactly those six codes (the fiat model exactly AED, EUR,
\* USD, the crypto model exactly BTC, ETH, SOL), each with the decimal of the
\* raw value, dropping every other code; for any other raw mapping it raises
\* and main() holds no filtered mapping.
C4_CleanKeepsExactlyRequired ==
    \A p \in Runs :
        calls[p]["clean"] > 0 /\ rate[p] # None =>
            IF WellFormed(rate[p])
            THEN /\ filtered_rate[p] # None
                 /\ DOMAIN filtered_rate[p] = Required
                 /\ DOMAIN FiatRate(rate[p]) = {"AED", "EUR", "USD"}
                 /\ DOMAIN CryptoRate(rate[p]) = {"BTC", "ETH", "SOL"}
                 /\ \A c \in Required :
                        filtered_rate[p][c] = ToDecimal(rate[p][c])
            ELSE /\ filtered_rate[p] = None
                 /\ pc[p] = "raised"
                 /\ exc[p] = "ValidationError"

\* One run cleaned a mapping that had an extra code, another was rejected.
C4_Witness ==
    \E p, q \in Runs :
        /\ calls[p]["clean"] > 0 /\ rate[p] # None
        /\ DOMAIN rate[p] \ Required # {}
        /\ filtered_rate[p] # None
        /\ ValidateFailed(q) /\ pc[q] = "raised"

\* C5: the fiat insert comes first and is not undone: a run at or past its
\* crypto insert has its fiat snapshot; a crypto insert that fails leaves
\* the run's fiat snapshot in place and no crypto snapshot of the run;
\* the crypto collection never holds more snapshots than the fiat
\* collection, nor a snapshot of a run that has no fiat snapshot.
C5_State ==
    /\ Len(crypto) <= Len(fiat)
    /\ \A p \in Runs :
          /\ HasCrypto(p) => HasFiat(p)
          /\ pc[p] = "insert_fiat" => ~HasFiat(p) /\ ~HasCrypto(p)
          /\ pc[p] = "insert_crypto" => HasFiat(p) /\ ~HasCrypto(p)

C5_FailedCryptoInsert ==
    \A p \in Runs :
        pc[p] = "insert_crypto" /\ pc'[p] = "done" /\ log'[p] # log[p] =>
            /\ fiat' = fiat
            /\ Owned(fiat', p) # {}
            /\ Owned(crypto', p) = {}

\* C5: the state part in every reachable state, the failed crypto insert on
\* every step.
C5_FiatFirstNoRollback == []C5_State /\ [][C5_FailedCryptoInsert]_vars

\* A run ended on a failed crypto insert: its fiat snapshot is the only one.
C5_Witness ==
    \E p \in Runs :
        /\ pc[p] = "done" /\ log[p] = <<"Database connection Error">>
        /\ HasFiat(p) /\ ~HasCrypto(p)

\* C6: no run ends with its database client still open.
C6_ClientReleased ==
    \A p \in Runs : Ended(p) => client[p] # "open"

\* C7: with MONGO unset or empty the Store stage ends on a configuration
\* diagnostic without creating a client and without inserting, after Fetch,
\* Validate and Invert have each run once to completion.
C7_MissingMongo ==
    \A p \in Runs :
        environ[p] # None /\ environ[p].MONGO \in {None, Str("")} =>
            /\ client[p] = "none"
            /\ ~HasFiat(p) /\ ~HasCrypto(p)
            /\ pc[p] = "done" /\ exc[p] = "none"
            /\ log[p] = IF environ[p].env_file
                        THEN <<"Environment variable Error">>
                        ELSE <<"File Error">>
            /\ calls[p] = [s \in Stages |-> 1]
            /\ WellFormed(rate[p])
            /\ DOMAIN inverted_rate[p] = Required

\* One run found MONGO empty and one found it unset, both with a .env file.
C7_Witness ==
    \E p, q \in Runs :
        /\ environ[p] = [env_file |-> TRUE, MONGO |-> Str("")]
        /\ environ[q] = [env_file |-> TRUE, MONGO |-> None]
        /\ pc[p] = "done" /\ pc[q] = "done"

\* C8: concurrent runs do not interfere.  No run waits for another (a run
\* that has not ended can always take its next step); a step of one run
\* leaves the snapshots of every other run as they are; every run that
\* succeeded has exactly one snapshot in each collection, holding its own
\* rates, whatever the other runs stored, so that N successful runs leave
\* N fiat and N crypto snapshots.
RunStep(p) ==
    \/ Fetch(p) \/ Clean(p) \/ Invert(p) \/ Store(p)
    \/ InitBeanie(p) \/ InsertFiat(p) \/ InsertCrypto(p)

C8_State ==
    /\ \A p \in Runs : ~Ended(p) => ENABLED RunStep(p)
    /\ \A p \in Runs :
          Succeeded(p) =>
              /\ Cardinality(Owned(fiat, p)) = 1
              /\ Cardinality(Owned(crypto, p)) = 1
              /\ \A i \in Owned(fiat, p) :
                    fiat[i].rates = FiatRate(inverted_rate[p])
              /\ \A i \in Owned(crypto, p) :
                    crypto[i].rates = CryptoRate(inverted_rate[p])
    /\ Len(fiat) >= Cardinality({p \in Runs : Succeeded(p)})
    /\ Len(crypto) = Cardinality({p \in Runs : Succeeded(p)})

C8_OthersUntouched ==
    \A p, q \in Runs :
        p # q /\ pc'[p] # pc[p] =>
            /\ \A i \in Owned(fiat, q) : i \in DOMAIN fiat' /\ fiat'[i] = fiat[i]
            /\ \A i \in Owned(crypto, q) :
                  i \in DOMAIN crypto' /\ crypto'[i] = crypto[i]
            /\ Owned(fiat', q) = Owned(fiat, q)
            /\ Owned(crypto', q) = Owned(crypto, q)

\* C8: the state part in every reachable state, the other runs' snapshots
\* untouched on every step.
C8_ConcurrentRunsIndependent == []C8_State /\ [][C8_OthersUntouched]_vars

\* Two runs overlapped (the second inserted its fiat snapshot between the
\* two inserts of the first), stored the same rates, and both succeeded.
C8_Witness ==
    \E p, q \in Runs :
        /\ p # q /\ Succeeded(p) /\ Succeeded(q)
        /\ Len(fiat) >= 2 /\ Len(crypto) >= 2
        /\ fiat[1].owner = p /\ fiat[2].owner = q /\ crypto[1].owner = q
        /\ fiat[1].rates = fiat[2].rates

\* C9: the collections are append-only and a run inserts at most one
\* snapshot into each: every step keeps both collections as prefixes of
\* themselves and adds at most one snapshot; no run owns more than one
\* snapshot per collection, a successful run owns exactly one in each, and
\* no run calls a stage twice.
C9_State ==
    \A p \in Runs :
        /\ Cardinality(Owned(fiat, p)) <= 1
        /\ Cardinality(Owned(crypto, p)) <= 1
        /\ Succeeded(p) => HasFiat(p) /\ HasCrypto(p)
        /\ \A s \in Stages : calls[p][s] <= 1

C9_Append ==
    /\ IsPrefix(fiat, fiat') /\ IsPrefix(crypto, crypto')
    /\ Len(fiat') + Len(crypto') <= Len(fiat) + Len(crypto) + 1

\* C9: the state part in every reachable state, append-only on every step.
C9_AppendOnly == []C9_State /\ [][C9_Append]_vars

\* A later run added its snapshots after an earlier run had ended.
C9_Witness ==
    \E p, q \in Runs :
        /\ p # q /\ Succeeded(p) /\ Succeeded(q)
        /\ Len(fiat) = 2 /\ Len(crypto) = 2
        /\ fiat[1].owner = p /\ crypto[1].owner = p
        /\ fiat[2].owner = q /\ crypto[2].owner = q
        /\ fiat[1].date < crypto[1].date /\ crypto[1].date < fiat[2].date

\* C10: every fiat snapshot's rates have exactly the keys AED, EUR, USD and
\* every crypto snapshot's exactly BTC, ETH, SOL, though the store is handed
\* the merged mapping of all six.
C10_SnapshotKeys ==
    /\ \A i \in DOMAIN fiat : DOMAIN fiat[i].rates = {"AED", "EUR", "USD"}
    /\ \A i \in DOMAIN crypto : DOMAIN crypto[i].rates = {"BTC", "ETH", "SOL"}

\* A run handed the six-code mapping to the store and both snapshots exist.
C10_Witness ==
    \E p \in Runs :
        /\ HasFiat(p) /\ HasCrypto(p)
        /\ DOMAIN inverted_rate[p] = Required

====
